---- MODULE Spec2Model ----
(***************************************************************************)
(* Fyrox demo projects: the gameplay glue of the examples (platformer,     *)
(* animation, sound, ui, blendshape) and their executor entry points.      *)
(*                                                                         *)
(* Numbers.  f32 values are modelled by integers in the unit the code      *)
(* uses them in (velocities in units per second, slider values in slider   *)
(* units); a value whose IEEE sign bit the code manipulates (the sprite's  *)
(* X scale, through copysign) is a sign/magnitude pair.                    *)
(***************************************************************************)
EXTENDS Integers, Sequences, FiniteSets, TLC

VARIABLES
    example,     \* which example's scripts/plugin the engine is driving
    lastCall,    \* the callback the engine has called last
    keyLog,      \* history: per key code, the state of its last keyboard event
    player,      \* platformer: the Player script (src/platformer/game/src/lib.rs)
    graph,       \* platformer: the scene graph, handle -> node
    animPlayer,  \* animation: the walk/run flags and camera angles of Player
    camera,      \* sound: the CameraController script
    uiQueue,     \* the UI messages sent and not yet polled (UserInterface)
    game,        \* ui: the Game plugin (src/ui/game/src/lib.rs)
    scenes,      \* ui: the engine's scene container, scene handle -> graph
    scrollBar,   \* ui: the values of the yaw and scale ScrollBar widgets
    quality,     \* ui: the renderer's quality settings
    resetRun,    \* ui history: what has been reported since the last Reset click
    captured,    \* ui, MyButton: the widget that has captured the mouse
    blendGame,   \* blendshape: the Game plugin (src/blendshape/game/src/lib.rs)
    blendScene,  \* blendshape: the loaded scene (the head's blend shapes, the model)
    entry,       \* entry points: the main function that is running
    pc,          \* entry points: the statements of main executed so far
    executor,    \* entry points: the Executor or Editor that main builds
    menu         \* platformer: the Game plugin, its menu and its loading task

scriptVars == <<keyLog, player, graph, animPlayer, camera>>

uiVars == <<uiQueue, game, scenes, scrollBar, quality, resetRun>>

restVars == <<captured, blendGame, blendScene, entry, pc, executor, menu>>

vars == <<example, lastCall, scriptVars, uiVars, restVars>>

(***************************************************************************)
(* Bounds of the model.                                                    *)
(***************************************************************************)
MaxVel == 4       \* linear velocities range over -MaxVel..MaxVel
MaxScale == 1     \* the magnitude of the sprite's X scale ranges over 0..MaxScale
MaxAnims == 2     \* a Player holds 0..MaxAnims sprite sheet animations
MaxTurns == 1     \* the yaw stays within MaxTurns mouse drags of its start

(***************************************************************************)
(* OS events (winit Event<()>), as the handlers destructure them.          *)
(***************************************************************************)
KeyCodes == {"KeyW", "KeyS", "KeyA", "KeyD", "Space", "ShiftLeft", "KeyQ"}

ElementStates == {"Pressed", "Released"}

\* PhysicalKey::Code(code) or PhysicalKey::Unidentified(_)
PhysicalKeys == KeyCodes \cup {"Unidentified"}

KeyboardInput ==
    [type : {"KeyboardInput"}, physical_key : PhysicalKeys, state : ElementStates]

\* DeviceEvent::MouseMotion { delta }.  Angles are in tenths of a degree; a delta
\* is given as the angle delta * sensitivity * dt it stands for (a drag of 45 degrees).
MouseDeltas == {-450, 450}

MouseMotion ==
    [type : {"MouseMotion"}, dx : MouseDeltas, dy : MouseDeltas]

\* any other window or device event (resize, focus, cursor, ...)
OtherEvents == {[type |-> "Resized"], [type |-> "MouseWheel"]}

Events == KeyboardInput \cup MouseMotion \cup OtherEvents

Clamp(v, lo, hi) == IF v < lo THEN lo ELSE IF v > hi THEN hi ELSE v

\* f32::to_radians, to the milliradian
ToRadians(degrees) == (degrees * 17453) \div 1000

\* The yaw is unbounded in the code; the model stops turning at YawCap.
YawCap == 450 * MaxTurns

(***************************************************************************)
(* Platformer: Player::on_os_event                                         *)
(***************************************************************************)
PlayerOnOsEventBadKey(p, event) ==
    IF event.type = "KeyboardInput" /\ event.physical_key \in KeyCodes
    THEN LET is_pressed == event.state = "Pressed"
             code == event.physical_key
         IN  CASE code = "KeyA"  -> [p EXCEPT !.move_left = is_pressed]
               [] code = "KeyD"  -> [p EXCEPT !.move_left = is_pressed]
               [] code = "Space" -> [p EXCEPT !.jump = is_pressed]
               [] OTHER          -> p
    ELSE p

PlayerOnOsEvent(p, event) ==
    IF event.type = "KeyboardInput" /\ event.physical_key \in KeyCodes
    THEN LET is_pressed == event.state = "Pressed"
             code == event.physical_key
         IN  CASE code = "KeyA"  -> [p EXCEPT !.move_left = is_pressed]
               [] code = "KeyD"  -> [p EXCEPT !.move_right = is_pressed]
               [] code = "Space" -> [p EXCEPT !.jump = is_pressed]
               [] OTHER          -> p
    ELSE p

(***************************************************************************)
(* Animation: Player::on_os_event                                          *)
(***************************************************************************)
PitchLimitPlayer == 900      \* 90.0f32.to_radians()

AnimPlayerOnOsEvent(p, event) ==
    CASE event.type = "KeyboardInput" ->
           IF event.physical_key \in KeyCodes
           THEN LET pressed == event.state = "Pressed"
                    code == event.physical_key
                IN  CASE code = "KeyW"      -> [p EXCEPT !.walk_forward = pressed]
                      [] code = "KeyS"      -> [p EXCEPT !.walk_backward = pressed]
                      [] code = "KeyA"      -> [p EXCEPT !.walk_left = pressed]
                      [] code = "KeyD"      -> [p EXCEPT !.walk_right = pressed]
                      [] code = "ShiftLeft" -> [p EXCEPT !.run = pressed]
                      [] OTHER              -> p
           ELSE p
      [] event.type = "MouseMotion" ->
           [p EXCEPT !.yaw = p.yaw - event.dx,
                     !.pitch = Clamp(p.pitch + event.dy,
                                     -PitchLimitPlayer, PitchLimitPlayer)]
      [] OTHER -> p

(***************************************************************************)
(* Sound: CameraController::on_os_event                                    *)
(***************************************************************************)
PitchLimitCamera == 899      \* 89.9f32.to_radians()

CameraControllerOnOsEvent(c, event) ==
    CASE event.type = "KeyboardInput" ->
           LET pressed == event.state = "Pressed"
               code == event.physical_key
           IN  CASE code = "KeyW" -> [c EXCEPT !.move_forward = pressed]
                 [] code = "KeyS" -> [c EXCEPT !.move_backward = pressed]
                 [] code = "KeyA" -> [c EXCEPT !.move_left = pressed]
                 [] code = "KeyD" -> [c EXCEPT !.move_right = pressed]
                 [] OTHER         -> c
      [] event.type = "MouseMotion" ->
           [c EXCEPT !.yaw = c.yaw - event.dx,
                     !.pitch = Clamp(c.pitch + event.dy,
                                     -PitchLimitCamera, PitchLimitCamera)]
      [] OTHER -> c

(***************************************************************************)
(* Platformer: the scene the Player script lives in.                       *)
(*                                                                         *)
(* Handle 0 is Handle::NONE.  Node ScriptNode is the node the script is    *)
(* attached to (context.handle); OtherNode is another node of the scene.   *)
(* A node has a kind, a local scale, and, by kind, a linear velocity (2D   *)
(* rigid body) or a displayed frame (Rectangle).                           *)
(***************************************************************************)
NONE == 0
ScriptNode == 1
OtherNode == 2
\* a handle of a node that is no longer in the graph
StaleHandle == 3
Handles == {ScriptNode, OtherNode}

VelRange == -MaxVel .. MaxVel

\* an f32 whose sign bit matters: sign and magnitude
SignedScales == [neg : BOOLEAN, mag : 0 .. MaxScale]

\* graph.try_get_mut(handle): Some(node) for a handle of the pool
TryGet(g, handle) == handle \in DOMAIN g

\* f32::copysign: the magnitude of v with the sign bit of -x_speed, for x_speed # 0.
\* The sign bit of -x_speed is set when x_speed is positive.
CopySignOfNegated(v, x_speed) == [neg |-> x_speed > 0, mag |-> v.mag]

\* SpriteSheetAnimation::update(dt) of the engine: the animation advances to its
\* next frame, looping over its two frames.
AnimationUpdate(a) == [a EXCEPT !.frame = (a.frame + 1) % 2]

(***************************************************************************)
(* Platformer: Player::on_update, the rigid body part (lines 179-218).     *)
(***************************************************************************)
XSpeedRightWins(p) ==
    IF p.move_right THEN -3 ELSE IF p.move_left THEN 3 ELSE 0

XSpeed(p) ==
    IF p.move_left THEN 3 ELSE IF p.move_right THEN -3 ELSE 0

SetLinVelNoJump(p, body, x_speed) ==
    <<x_speed, body.lin_vel[2]>>

SetLinVel(p, body, x_speed) ==
    IF p.jump THEN <<x_speed, 4>> ELSE <<x_speed, body.lin_vel[2]>>

MirrorSpriteAlways(g, sprite, x_speed) ==
    IF TryGet(g, sprite)
    THEN [g EXCEPT ![sprite].scale =
             <<CopySignOfNegated(g[sprite].scale[1], x_speed),
               g[sprite].scale[2], g[sprite].scale[3]>>]
    ELSE g

MirrorSprite(g, sprite, x_speed) ==
    IF TryGet(g, sprite) /\ x_speed # 0
    THEN [g EXCEPT ![sprite].scale =
             <<CopySignOfNegated(g[sprite].scale[1], x_speed),
               g[sprite].scale[2], g[sprite].scale[3]>>]
    ELSE g

MoveAnyNode(p, g) ==
    LET x_speed == XSpeed(p)
        moved == [g EXCEPT ![ScriptNode].lin_vel = SetLinVel(p, g[ScriptNode], x_speed)]
    IN  [player |-> [p EXCEPT !.current_animation = IF x_speed # 0 THEN 0 ELSE 1],
         graph  |-> MirrorSprite(moved, p.sprite, x_speed)]

MoveRigidBody(p, g) ==
    IF g[ScriptNode].kind = "RigidBody2D"
    THEN LET x_speed == XSpeed(p)
             moved == [g EXCEPT ![ScriptNode].lin_vel =
                                    SetLinVel(p, g[ScriptNode], x_speed)]
         IN  [player |-> [p EXCEPT !.current_animation =
                                       IF x_speed # 0 THEN 0 ELSE 1],
              graph  |-> MirrorSprite(moved, p.sprite, x_speed)]
    ELSE [player |-> p, graph |-> g]

(***************************************************************************)
(* Platformer: Player::on_update, the sprite sheet part (lines 220-241).   *)
(* animations.get_mut(current_animation) is Some for an index below the    *)
(* length; the frame goes to the sprite when it is a Rectangle.            *)
(***************************************************************************)
AnimateSprite(p, g) ==
    LET i == p.current_animation + 1
    IN  IF i <= Len(p.animations)
        THEN LET current_animation == AnimationUpdate(p.animations[i])
             IN  [player |-> [p EXCEPT !.animations[i] = current_animation],
                  graph  |->
                      IF /\ TryGet(g, p.sprite)
                         /\ g[p.sprite].kind = "Rectangle"
                         /\ g[p.sprite].diffuse
                      THEN [g EXCEPT ![p.sprite].frame =
                               [texture |-> i, uv_rect |-> current_animation.frame]]
                      ELSE g]
        ELSE [player |-> p, graph |-> g]

PlayerOnUpdate(p, g) ==
    LET moved == MoveRigidBody(p, g)
    IN  AnimateSprite(moved.player, moved.graph)

IndexFails(p, g) == ~TryGet(g, p.sprite)

\* set_texture(..).unwrap() (lines 230-234) panics when the material of the
\* Rectangle has no property of that name; p is the script after the rigid body part
SetTextureFails(p, g) ==
    /\ p.current_animation + 1 <= Len(p.animations)
    /\ TryGet(g, p.sprite)
    /\ g[p.sprite].kind = "Rectangle"
    /\ ~g[p.sprite].diffuse

\* on_update panics
OnUpdateFails(p, g) == SetTextureFails(MoveRigidBody(p, g).player, g)

(***************************************************************************)
(* Initial values.                                                         *)
(***************************************************************************)
\* Player::default()
PlayerDefault ==
    [sprite |-> NONE, move_left |-> FALSE, move_right |-> FALSE, jump |-> FALSE,
     animations |-> <<>>, current_animation |-> 0]

\* #[derive(Default)] of the animation Player and of the CameraController
AnimPlayerDefault ==
    [camera_pivot |-> NONE, camera_hinge |-> NONE, state_machine |-> NONE,
     model_pivot |-> NONE, model |-> NONE, model_yaw |-> [angle |-> 0, target |-> 0, speed |-> 1],
     walk_forward |-> FALSE, walk_backward |-> FALSE, walk_left |-> FALSE,
     walk_right |-> FALSE, run |-> FALSE, yaw |-> 0, pitch |-> 0]

CameraControllerDefault ==
    [move_forward |-> FALSE, move_backward |-> FALSE, move_left |-> FALSE,
     move_right |-> FALSE, yaw |-> 0, pitch |-> 0]

UnitScale == <<[neg |-> FALSE, mag |-> 1], 1, 1>>

NoFrame == [texture |-> 0, uv_rect |-> 0]

\* diffuse: the material of the node has the property "diffuseTexture"
RestNode(kind) ==
    [kind |-> kind, scale |-> UnitScale, lin_vel |-> <<0, 0>>, frame |-> NoFrame,
     diffuse |-> TRUE]

\* The scenes a Player may be loaded into: the script's node is a 2D rigid body with
\* some velocity, or a node of another kind; the other node is a Rectangle or a
\* pivot; the node the sprite handle names has an X scale of either sign and any
\* magnitude, and Y and Z scales that differ from it and from each other.
Scales == SignedScales \X {MaxScale + 1} \X {MaxScale + 2}

ScriptNodes ==
    {[RestNode("RigidBody2D") EXCEPT !.lin_vel = v] : v \in VelRange \X VelRange}
        \cup {RestNode("Pivot")}

OtherNodes ==
    {RestNode("Rectangle"), [RestNode("Rectangle") EXCEPT !.diffuse = FALSE],
     RestNode("Pivot")}

\* the sprite handle and the animations are set in the editor and loaded with the scene
LoadedPlayers ==
    {[PlayerDefault EXCEPT !.sprite = h, !.animations = [i \in 1 .. n |-> [frame |-> 0]]] :
        h \in {NONE, OtherNode, StaleHandle}, n \in 0 .. MaxAnims}

LoadedGraphs(p) ==
    {[h \in Handles |->
        LET node == IF h = ScriptNode THEN sn ELSE on
        IN  IF h = p.sprite THEN [node EXCEPT !.scale = sc] ELSE node] :
        sn \in ScriptNodes, on \in OtherNodes, sc \in Scales}

NoKeyLog == [k \in KeyCodes |-> "None"]

\* Game::new of the ui example, and the engine before any scene or widget exists
GameNew == [scene |-> NONE, interface |-> <<>>, paladin |-> NONE]

NoReset == [active |-> FALSE, reported |-> {}]

UiAtRest ==
    /\ uiQueue = <<>>
    /\ game = GameNew
    /\ scenes = <<>>
    /\ scrollBar = <<>>
    /\ quality = 0
    /\ resetRun = NoReset

\* Game::new of the blendshape example, loading data/scene.rgs
BlendGameNew ==
    [scene |-> NONE, loader |-> "loading", model_handle |-> NONE,
     input_controller |-> [rotate_left |-> FALSE, rotate_right |-> FALSE],
     model_angle |-> ToRadians(180), sliders |-> <<>>, panicked |-> FALSE]

NoScene == [blend_shapes |-> <<>>, surface_names |-> {}, model |-> <<>>]

\* a process before its main has run a statement
NoExecutor ==
    [panic_hook |-> FALSE, window_attributes |-> <<>>, event_loop |-> "none",
     built |-> "none", plugins |-> <<>>, state |-> "starting"]

\* Game::new of the platformer: the handles are NONE, the menu is being loaded by a
\* task, and the user interface is the empty one of the engine, a root and no more
PlatformerGameNew ==
    [scene |-> NONE, debug_text |-> NONE, new_game |-> NONE, exit |-> NONE]

MenuAtRest ==
    [game |-> PlatformerGameNew, task |-> "spawned", user_interface |-> <<"Root">>,
     root_visible |-> TRUE, window_target |-> TRUE, exit |-> FALSE]

RestAtRest ==
    /\ captured = "none"
    /\ blendGame = BlendGameNew
    /\ blendScene = NoScene
    /\ entry = "none"
    /\ pc = 0
    /\ executor = NoExecutor
    /\ menu = MenuAtRest

RestGraph == [h \in Handles |-> RestNode("Pivot")]

InitPlatformer ==
    /\ example = "platformer"
    /\ lastCall = "new"
    /\ keyLog = NoKeyLog
    /\ player \in LoadedPlayers
    /\ graph \in LoadedGraphs(player)
    /\ animPlayer = AnimPlayerDefault
    /\ camera = CameraControllerDefault
    /\ UiAtRest
    /\ RestAtRest

InitInput ==
    /\ example \in {"platformer", "animation", "sound"}
    /\ lastCall = "new"
    /\ keyLog = NoKeyLog
    /\ player = PlayerDefault
    /\ graph = RestGraph
    /\ animPlayer = AnimPlayerDefault
    /\ camera = CameraControllerDefault
    /\ UiAtRest
    /\ RestAtRest

(***************************************************************************)
(* The engine delivers an OS event to the script of the running example.   *)
(***************************************************************************)
DeliverOsEvent(event) ==
    /\ lastCall # "panicked"
    /\ lastCall' = "on_os_event"
    /\ CASE example = "platformer" ->
              /\ player' = PlayerOnOsEvent(player, event)
              /\ UNCHANGED <<animPlayer, camera>>
         [] example = "animation" ->
              /\ animPlayer' = AnimPlayerOnOsEvent(animPlayer, event)
              /\ animPlayer'.yaw \in -YawCap .. YawCap
              /\ UNCHANGED <<player, camera>>
         [] example = "sound" ->
              /\ camera' = CameraControllerOnOsEvent(camera, event)
              /\ camera'.yaw \in -YawCap .. YawCap
              /\ UNCHANGED <<player, animPlayer>>
    /\ UNCHANGED <<example, graph, uiVars, restVars>>

\* history: the state of the last keyboard event of each key code
Logged(log, event) ==
    IF event.type = "KeyboardInput" /\ event.physical_key \in KeyCodes
    THEN [log EXCEPT ![event.physical_key] = event.state]
    ELSE log

LoggedOsEvent ==
    \E event \in Events :
        /\ DeliverOsEvent(event)
        /\ keyLog' = Logged(keyLog, event)

OsEvent ==
    \E event \in Events :
        /\ DeliverOsEvent(event)
        /\ UNCHANGED keyLog

(***************************************************************************)
(* Platformer: the engine's tick calls Player::on_update; between ticks    *)
(* the physics of the engine moves the rigid body (gravity, contacts).     *)
(***************************************************************************)
OnUpdate ==
    /\ example = "platformer"
    /\ lastCall # "panicked"
    /\ LET after == PlayerOnUpdate(player, graph)
       IN  /\ player' = after.player
           /\ graph' = after.graph
    /\ lastCall' = IF OnUpdateFails(player, graph) THEN "panicked" ELSE "on_update"
    /\ UNCHANGED <<example, keyLog, animPlayer, camera, uiVars, restVars>>

\* gravity pulls the body down or a landing stops its fall; a wall stops it sideways
PhysicsStep ==
    /\ example = "platformer"
    /\ lastCall # "panicked"
    /\ graph[ScriptNode].kind = "RigidBody2D"
    /\ LET v == graph[ScriptNode].lin_vel
       IN  \E x \in {v[1], 0}, y \in {Clamp(v[2] - 1, -MaxVel, MaxVel), 0} :
               graph' = [graph EXCEPT ![ScriptNode].lin_vel = <<x, y>>]
    /\ lastCall' = "physics"
    /\ UNCHANGED <<example, keyLog, player, animPlayer, camera, uiVars, restVars>>

NextInput == LoggedOsEvent

NextPlatformer == OsEvent \/ OnUpdate \/ PhysicsStep

SpecInput == InitInput /\ [][NextInput]_vars

SpecPlatformer == InitPlatformer /\ [][NextPlatformer]_vars

(***************************************************************************)
(* Claims about the input-driven scripts and the platformer Player.        *)
(***************************************************************************)
Down(k) == keyLog[k] = "Pressed"

\* C1: in each input-driven script every movement flag equals the pressed state of
\* the most recent keyboard event of its own key, and is false when that key has had
\* no event: events of other keys and non-keyboard events change no flag.
C1_FlagsFollowTheirKeys ==
    /\ example = "platformer" =>
           /\ player.move_left = Down("KeyA")
           /\ player.move_right = Down("KeyD")
           /\ player.jump = Down("Space")
    /\ example = "animation" =>
           /\ animPlayer.walk_forward = Down("KeyW")
           /\ animPlayer.walk_backward = Down("KeyS")
           /\ animPlayer.walk_left = Down("KeyA")
           /\ animPlayer.walk_right = Down("KeyD")
           /\ animPlayer.run = Down("ShiftLeft")
    /\ example = "sound" =>
           /\ camera.move_forward = Down("KeyW")
           /\ camera.move_backward = Down("KeyS")
           /\ camera.move_left = Down("KeyA")
           /\ camera.move_right = Down("KeyD")

\* A was pressed and released, D and an unbound key are held, the mouse has not
\* moved the flags: only move_right is set.
C1_Witness ==
    /\ example = "platformer"
    /\ lastCall = "on_os_event"
    /\ keyLog["KeyA"] = "Released"
    /\ keyLog["KeyD"] = "Pressed"
    /\ keyLog["KeyQ"] = "Pressed"
    /\ keyLog["KeyW"] = "Pressed"
    /\ player.move_right /\ ~player.move_left /\ ~player.jump

IsRigidBody == graph[ScriptNode].kind = "RigidBody2D"

Ticked == example = "platformer" /\ lastCall = "on_update"

\* C2: after on_update on a 2D rigid body, the body's horizontal velocity is 3 when
\* move_left is set, otherwise -3 when move_right is set, otherwise 0, whatever it
\* was before.
C2_HorizontalVelocityFromFlags ==
    Ticked /\ IsRigidBody =>
        graph[ScriptNode].lin_vel[1] =
            IF player.move_left THEN 3 ELSE IF player.move_right THEN -3 ELSE 0

\* both keys held: move_left has won
C2_Witness ==
    /\ Ticked /\ IsRigidBody
    /\ player.move_left /\ player.move_right
    /\ graph[ScriptNode].lin_vel[1] = 3

\* C3: a tick with the jump flag set leaves the body with vertical velocity 4; a tick
\* with the flag clear leaves the vertical velocity as it was.
C3_JumpSetsVerticalVelocity ==
    [][(example = "platformer" /\ lastCall' = "on_update" /\ IsRigidBody) =>
          /\ player.jump => graph'[ScriptNode].lin_vel[2] = 4
          /\ ~player.jump =>
                 graph'[ScriptNode].lin_vel[2] = graph[ScriptNode].lin_vel[2]]_vars

\* Space is held across a tick: the body rises at 4 again
C3_Witness ==
    /\ Ticked /\ IsRigidBody
    /\ player.jump
    /\ graph[ScriptNode].lin_vel[2] = 4

C10_SpriteMirroredOnlyWhenMoving ==
    [][(example = "platformer" /\ lastCall' = "on_update") =>
          LET x_speed == IF player.move_left THEN 3
                         ELSE IF player.move_right THEN -3 ELSE 0
          IN  \A h \in Handles :
                  /\ (x_speed = 0 \/ ~IsRigidBody) => graph'[h].scale = graph[h].scale
                  /\ graph'[h].scale[1].mag = graph[h].scale[1].mag
                  /\ graph'[h].scale[2] = graph[h].scale[2]
                  /\ graph'[h].scale[3] = graph[h].scale[3]
                  /\ (IsRigidBody /\ h = player.sprite /\ x_speed = 3) =>
                         graph'[h].scale[1].neg
                  /\ (IsRigidBody /\ h = player.sprite /\ x_speed = -3) =>
                         ~graph'[h].scale[1].neg
                  /\ h # player.sprite => graph'[h].scale = graph[h].scale]_vars

\* the player runs left: the sprite is mirrored, its size kept
C10_Witness ==
    /\ Ticked /\ IsRigidBody
    /\ player.move_left
    /\ player.sprite = OtherNode
    /\ graph[OtherNode].scale = <<[neg |-> TRUE, mag |-> MaxScale], MaxScale + 1, MaxScale + 2>>

\* C11: on_update with a sprite handle that is unassigned or names no node of the
\* graph does not panic; on a rigid body it sets the velocity from the flags as with
\* any handle, and it changes nothing else of any node: no scale and no frame.
C11_InvalidSpriteHandleIsSkipped ==
    [][(/\ example = "platformer"
        /\ lastCall' \in {"on_update", "panicked"}
        /\ ~TryGet(graph, player.sprite)) =>
          /\ lastCall' = "on_update"
          /\ IsRigidBody =>
                 graph'[ScriptNode].lin_vel =
                     <<IF player.move_left THEN 3 ELSE IF player.move_right THEN -3 ELSE 0,
                       IF player.jump THEN 4 ELSE graph[ScriptNode].lin_vel[2]>>
          /\ \A h \in Handles :
                 graph' [h] = [graph[h] EXCEPT !.lin_vel = graph'[h].lin_vel]
          /\ graph'[OtherNode] = graph[OtherNode]]_vars

\* the sprite handle is stale: a tick has moved the body left and advanced the
\* animation, and the Rectangle beside it shows no frame
C11_Witness ==
    /\ Ticked /\ IsRigidBody
    /\ player.sprite = StaleHandle
    /\ player.move_left
    /\ graph[ScriptNode].lin_vel[1] = 3
    /\ Len(player.animations) > 0
    /\ player.animations[1].frame = 1
    /\ graph[OtherNode].kind = "Rectangle"
    /\ graph[OtherNode].frame = NoFrame

(***************************************************************************)
(* UI example: messages, widgets and the scene.                            *)
(*                                                                         *)
(* Slider values are in slider units: degrees for the yaw slider and       *)
(* thousandths for the scale slider (0.005 is 5).  Rotations are an axis   *)
(* and an angle in milliradians.                                           *)
(***************************************************************************)
MaxQueue == 2     \* the user acts again only while fewer messages are waiting

Message(data, destination, direction, value) ==
    [data |-> data, destination |-> destination, direction |-> direction,
     value |-> value]

\* Interface::new: the handles of the widgets it builds
InterfaceNew ==
    [debug_text |-> "debug_text", yaw |-> "yaw", scale |-> "scale",
     reset |-> "reset", quality_inspector |-> "quality_inspector",
     press_me_button |-> "press_me_button", message_box |-> "none"]

\* ScrollBarBuilder::with_min / with_max of the two sliders
YawMin == 0
YawMax == 360
ScaleMin == 1
ScaleMax == 10

SliderMin(slider) == IF slider = "yaw" THEN YawMin ELSE ScaleMin
SliderMax(slider) == IF slider = "yaw" THEN YawMax ELSE ScaleMax

\* the sliders as built: the default value 0, clamped to the range
ScrollBarsBuilt == [yaw |-> YawMin, scale |-> ScaleMin]

\* UnitQuaternion::from_axis_angle
FromAxisAngle(axis, angle) == [axis |-> axis, angle |-> angle]

Identity == [axis |-> "none", angle |-> 0]

\* The scenes data/scene.rgs may hold: a root and one model, named paladin.fbx or
\* not, of some scale.
RootHandle == 1
ModelHandle == 2

LoadedModelScales == {<<10, 1, 1>>, <<20, 20, 20>>}

UiSceneGraphs ==
    {[h \in {RootHandle, ModelHandle} |->
        IF h = RootHandle
        THEN [name |-> "__ROOT__", scale |-> <<1, 1, 1>>, rotation |-> Identity]
        ELSE [name |-> n, scale |-> sc, rotation |-> Identity]] :
        n \in {"paladin.fbx", "barrel.fbx"}, sc \in LoadedModelScales}

\* graph.find_by_name_from_root: the handle of the node of that name, or NONE
FindByNameFromRoot(g, name) ==
    IF \E h \in DOMAIN g : g[h].name = name
    THEN CHOOSE h \in DOMAIN g : g[h].name = name
    ELSE NONE

\* scenes.try_get_mut(scene).and_then(|s| s.graph.try_get_mut(paladin))
PaladinValid(gm, sc) ==
    /\ gm.scene \in DOMAIN sc
    /\ gm.paladin \in DOMAIN sc[gm.scene]

(***************************************************************************)
(* UI example: Game::on_ui_message.  The result is the plugin, the scenes, *)
(* the quality settings and the messages sent.                             *)
(***************************************************************************)
Handled(gm, sc, q, sent) == [game |-> gm, scenes |-> sc, quality |-> q, sent |-> sent]

SetPaladinNoRadians(gm, sc, interface, message) ==
    IF message.destination = interface.scale
    THEN [sc EXCEPT ![gm.scene][gm.paladin].scale =
             <<message.value, message.value, message.value>>]
    ELSE IF message.destination = interface.yaw
    THEN [sc EXCEPT ![gm.scene][gm.paladin].rotation =
             FromAxisAngle("Y", message.value)]
    ELSE sc

SetPaladin(gm, sc, interface, message) ==
    IF message.destination = interface.scale
    THEN [sc EXCEPT ![gm.scene][gm.paladin].scale =
             <<message.value, message.value, message.value>>]
    ELSE IF message.destination = interface.yaw
    THEN [sc EXCEPT ![gm.scene][gm.paladin].rotation =
             FromAxisAngle("Y", ToRadians(message.value))]
    ELSE sc

ResetSlidersSwapped(interface) ==
    <<Message("ScrollBarValue", interface.yaw, "ToWidget", 5),
      Message("ScrollBarValue", interface.scale, "ToWidget", 180)>>

ResetSliders(interface) ==
    <<Message("ScrollBarValue", interface.scale, "ToWidget", 5),
      Message("ScrollBarValue", interface.yaw, "ToWidget", 180)>>

GameOnUiMessage(gm, sc, q, message) ==
    IF gm.interface = <<>>
    THEN Handled(gm, sc, q, <<>>)
    ELSE LET interface == gm.interface[1]
         IN  CASE message.data = "ScrollBarValue" ->
                    IF message.direction = "FromWidget" /\ PaladinValid(gm, sc)
                    THEN Handled(gm, SetPaladin(gm, sc, interface, message), q, <<>>)
                    ELSE Handled(gm, sc, q, <<>>)
               [] message.data = "ButtonClick" ->
                    IF message.destination = interface.reset
                    THEN Handled(gm, sc, q, ResetSliders(interface))
                    ELSE IF message.destination = interface.press_me_button
                    THEN Handled([gm EXCEPT !.interface[1].message_box = "message_box"],
                                 sc, q,
                                 <<Message("MessageBoxOpen", "message_box", "ToWidget", 0)>>)
                    ELSE Handled(gm, sc, q, <<>>)
               [] message.data = "InspectorPropertyChanged" ->
                    IF message.destination = interface.quality_inspector
                    THEN Handled(gm, sc, message.value, <<>>)
                    ELSE Handled(gm, sc, q, <<>>)
               [] message.data = "MessageBoxClose" ->
                    IF message.destination = interface.message_box
                    THEN Handled(gm, sc, q,
                                 <<Message("WidgetRemove", interface.message_box,
                                           "ToWidget", 0)>>)
                    ELSE Handled(gm, sc, q, <<>>)
               [] OTHER -> Handled(gm, sc, q, <<>>)

(***************************************************************************)
(* UI example: the engine's ScrollBar.  A Value message ToWidget for a     *)
(* slider sets the slider to the value clamped to its range and, when that *)
(* changes the slider, is answered by a Value message FromWidget.          *)
(***************************************************************************)
ScrollBarRoute(sb, message) ==
    IF /\ sb # <<>>
       /\ message.data = "ScrollBarValue"
       /\ message.direction = "ToWidget"
       /\ message.destination \in {"yaw", "scale"}
    THEN LET slider == message.destination
             new_value == Clamp(message.value, SliderMin(slider), SliderMax(slider))
         IN  IF new_value # sb[1][slider]
             THEN [scrollBar |-> <<[sb[1] EXCEPT ![slider] = new_value]>>,
                   sent |-> <<Message("ScrollBarValue", slider, "FromWidget", new_value)>>]
             ELSE [scrollBar |-> sb, sent |-> <<>>]
    ELSE [scrollBar |-> sb, sent |-> <<>>]

(***************************************************************************)
(* UI example: the callbacks of the plugin, as the engine calls them.      *)
(***************************************************************************)
InitUi ==
    /\ example = "ui"
    /\ lastCall = "new"
    /\ keyLog = NoKeyLog
    /\ player = PlayerDefault
    /\ graph = RestGraph
    /\ animPlayer = AnimPlayerDefault
    /\ camera = CameraControllerDefault
    /\ UiAtRest
    /\ RestAtRest

\* Game::on_graphics_context_initialized
OnGraphicsContextInitialized ==
    /\ example = "ui"
    /\ game.interface = <<>>
    /\ game' = [game EXCEPT !.interface = <<InterfaceNew>>]
    /\ scrollBar' = <<ScrollBarsBuilt>>
    /\ lastCall' = "on_graphics_context_initialized"
    /\ UNCHANGED <<example, scriptVars, restVars, uiQueue, scenes, quality, resetRun>>

\* euler_angles().2.to_degrees() of the loaded rotation: an angle the model does not
\* derive from the quaternion, below or inside the slider's range
LoadedYaws == {-90, 90}

\* Game::on_scene_loaded, called once the scene requested by Game::new is loaded
GameOnSceneLoaded(gm, sc, scene, yaw) ==
    LET g == sc[scene]
        handle == FindByNameFromRoot(g, "paladin.fbx")
    IN  IF handle # NONE
        THEN [game |-> [gm EXCEPT !.scene = scene, !.paladin = handle],
              sent |-> IF gm.interface # <<>>
                       THEN <<Message("ScrollBarValue", gm.interface[1].yaw,
                                      "ToWidget", yaw),
                              Message("ScrollBarValue", gm.interface[1].scale,
                                      "ToWidget", g[handle].scale[1])>>
                       ELSE <<>>]
        ELSE [game |-> [gm EXCEPT !.scene = scene], sent |-> <<>>]

OnSceneLoaded ==
    /\ example = "ui"
    /\ scenes = <<>>
    /\ \E g \in UiSceneGraphs, yaw \in LoadedYaws :
           /\ scenes' = <<g>>
           /\ LET loaded == GameOnSceneLoaded(game, scenes', 1, yaw)
              IN  /\ game' = loaded.game
                  /\ uiQueue' = uiQueue \o loaded.sent
    /\ resetRun' = NoReset
    /\ lastCall' = "on_scene_loaded"
    /\ UNCHANGED <<example, scriptVars, restVars, scrollBar, quality>>

\* What the widgets send when the user acts on them: a slider asks itself for the
\* dragged value, a button reports a click, another scroll bar reports its value,
\* the inspector reports an edited property, the message box reports its closing.
UserMessages ==
    IF game.interface = <<>>
    THEN {Message("WidgetMouseMove", "root", "FromWidget", 0)}
    ELSE {Message("ScrollBarValue", "yaw", "ToWidget", v) : v \in {90, 180}}
         \cup {Message("ScrollBarValue", "scale", "ToWidget", v) : v \in {5, 10}}
         \cup {Message("ScrollBarValue", "other_bar", "FromWidget", 7)}
         \cup {Message("ButtonClick", b, "FromWidget", 0) :
                   b \in {"reset", "press_me_button", "other_button"}}
         \cup {Message("InspectorPropertyChanged", "quality_inspector", "FromWidget", 1)}
         \cup {Message("MessageBoxClose", game.interface[1].message_box, "FromWidget", 0) :
                   b \in {x \in {1} : game.interface[1].message_box # "none"}}

IsSliderDrag(message) ==
    /\ message.data = "ScrollBarValue"
    /\ message.direction = "ToWidget"
    /\ message.destination \in {"yaw", "scale"}

UiInput ==
    /\ example = "ui"
    /\ Len(uiQueue) < MaxQueue
    /\ \E message \in UserMessages :
           /\ uiQueue' = Append(uiQueue, message)
           /\ resetRun' = IF IsSliderDrag(message) THEN NoReset ELSE resetRun
    /\ lastCall' = "input"
    /\ UNCHANGED <<example, scriptVars, restVars, game, scenes, scrollBar, quality>>

\* history: a Reset click received starts a run; a slider reporting its reset value
\* back is recorded in it
ResetValue(slider) == IF slider = "yaw" THEN 180 ELSE 5

ResetRunAfter(run, built, message) ==
    IF message.data = "ButtonClick" /\ message.destination = "reset" /\ built
    THEN [active |-> TRUE, reported |-> {}]
    ELSE IF /\ run.active
            /\ message.data = "ScrollBarValue"
            /\ message.direction = "FromWidget"
            /\ message.destination \in {"yaw", "scale"}
            /\ message.value = ResetValue(message.destination)
    THEN [run EXCEPT !.reported = @ \cup {message.destination}]
    ELSE run

\* UserInterface::poll_message: the next message is routed to the widgets and then
\* handed to the plugin's on_ui_message
PollMessage ==
    /\ example = "ui"
    /\ uiQueue # <<>>
    /\ LET message == Head(uiQueue)
           routed == ScrollBarRoute(scrollBar, message)
           handled == GameOnUiMessage(game, scenes, quality, message)
       IN  /\ scrollBar' = routed.scrollBar
           /\ game' = handled.game
           /\ scenes' = handled.scenes
           /\ quality' = handled.quality
           /\ uiQueue' = Tail(uiQueue) \o routed.sent \o handled.sent
           /\ resetRun' = ResetRunAfter(resetRun, game.interface # <<>>, message)
    /\ lastCall' = "on_ui_message"
    /\ UNCHANGED <<example, scriptVars, restVars>>

NextUi == OnGraphicsContextInitialized \/ OnSceneLoaded \/ UiInput \/ PollMessage

SpecUi == InitUi /\ [][NextUi]_vars

(***************************************************************************)
(* Claims about the UI example.                                            *)
(***************************************************************************)
\* an angle in milliradians, to the nearest degree
RoundDegrees(angle) == (angle * 1000 + 8726) \div 17453

AboutY(rotation, degrees) ==
    rotation.axis = "Y" /\ RoundDegrees(rotation.angle) = degrees

Uniform(value) == <<value, value, value>>

\* C4: when the plugin is handed a ScrollBar Value message, then if the message is
\* FromWidget, the interface is built and the scene and paladin handles are valid,
\* a message for the scale slider sets the paladin's scale to the value on all
\* three axes and one for the yaw slider sets its rotation to that many degrees
\* about Y, each leaving everything else of the scene alone; in every other case
\* the scene is left unchanged.
C4_SliderValueSetsTheModel ==
    [][(/\ example = "ui"
        /\ lastCall' = "on_ui_message"
        /\ Head(uiQueue).data = "ScrollBarValue") =>
          LET message == Head(uiQueue)
              applies == /\ message.direction = "FromWidget"
                         /\ game.interface # <<>>
                         /\ game.scene \in DOMAIN scenes
                         /\ game.paladin \in DOMAIN scenes[game.scene]
          IN  IF applies /\ message.destination = "scale"
              THEN scenes' = [scenes EXCEPT ![game.scene][game.paladin].scale =
                                               Uniform(message.value)]
              ELSE IF applies /\ message.destination = "yaw"
              THEN /\ AboutY(scenes'[game.scene][game.paladin].rotation, message.value)
                   /\ scenes'[game.scene][game.paladin].scale =
                          scenes[game.scene][game.paladin].scale
                   /\ scenes'[game.scene][game.paladin].name =
                          scenes[game.scene][game.paladin].name
                   /\ \A h \in DOMAIN scenes[game.scene] :
                          h # game.paladin =>
                              scenes'[game.scene][h] = scenes[game.scene][h]
              ELSE scenes' = scenes]_vars

\* both sliders have been dragged: the paladin is scaled to 0.005 and turned by 90
C4_Witness ==
    /\ example = "ui"
    /\ lastCall = "on_ui_message"
    /\ PaladinValid(game, scenes)
    /\ scenes[game.scene][game.paladin].scale = Uniform(5)
    /\ AboutY(scenes[game.scene][game.paladin].rotation, 90)

C8_ClickSends ==
    (/\ example = "ui"
     /\ lastCall' = "on_ui_message"
     /\ Head(uiQueue).data = "ButtonClick"
     /\ Head(uiQueue).destination = "reset"
     /\ game.interface # <<>>) =>
        /\ Len(uiQueue') = Len(uiQueue) + 1
        /\ {uiQueue'[i] : i \in Len(uiQueue) .. Len(uiQueue) + 1} =
               {Message("ScrollBarValue", "yaw", "ToWidget", 180),
                Message("ScrollBarValue", "scale", "ToWidget", 5)}

C8_Reported ==
    (/\ example = "ui"
     /\ resetRun.active
     /\ uiQueue = <<>>
     /\ PaladinValid(game, scenes)) =>
        /\ "yaw" \in resetRun.reported =>
               AboutY(scenes[game.scene][game.paladin].rotation, 180)
        /\ "scale" \in resetRun.reported =>
               scenes[game.scene][game.paladin].scale = Uniform(5)

\* C8: on a Click of the Reset button the plugin sends Value 180 to the yaw slider
\* and Value 0.005 to the scale slider, both ToWidget; and with the scene loaded and
\* the paladin found, once a slider has reported its reset value back and every
\* message is delivered (no slider dragged and no scene loaded since the click),
\* the model has yaw 180 degrees, respectively uniform scale 0.005.
C8_ResetResetsTheModel == [][C8_ClickSends]_vars /\ []C8_Reported

\* after a Reset click both sliders have reported and the model is reset
C8_Witness ==
    /\ example = "ui"
    /\ resetRun.active
    /\ resetRun.reported = {"yaw", "scale"}
    /\ uiQueue = <<>>
    /\ PaladinValid(game, scenes)
    /\ AboutY(scenes[game.scene][game.paladin].rotation, 180)
    /\ scenes[game.scene][game.paladin].scale = Uniform(5)

(***************************************************************************)
(* UI example, custom widget: MyButton (src/ui/game/src/custom.rs).        *)
(*                                                                         *)
(* MyButtonBuilder::build makes a text, a border holding it, and the       *)
(* button holding the border; another widget stands beside the button.     *)
(***************************************************************************)
MyButtonBuilt == [handle |-> "my_button", border |-> "border", text |-> "text"]

\* the children of each widget of the user interface
Children ==
    [w \in {"root", "my_button", "border", "text", "other"} |->
        CASE w = "root"      -> {"my_button", "other"}
          [] w = "my_button" -> {"border"}
          [] w = "border"    -> {"text"}
          [] OTHER           -> {}]

Widgets == DOMAIN Children

\* Widget::has_descendant: the handle is a child, or a descendant of a child
RECURSIVE HasDescendant(_, _)
HasDescendant(w, handle) ==
    \E c \in Children[w] : c = handle \/ HasDescendant(c, handle)

\* MyButton::set_colors: the three messages it sends
SetColors(button, text_color, border_color) ==
    <<Message("WidgetForeground", button.border, "ToWidget", border_color),
      Message("WidgetForeground", button.text, "ToWidget", text_color),
      Message("WidgetBackground", button.border, "ToWidget", border_color - 20)>>

IsWidgetMessage(message) ==
    message.data \in {"WidgetMouseUp", "WidgetMouseDown", "WidgetMouseEnter",
                      "WidgetMouseLeave", "WidgetMouseMove", "WidgetForeground",
                      "WidgetBackground"}

\* UserInterface::capture_mouse takes the mouse only when no widget holds it
CaptureMouse(cap, node) == IF cap = "none" THEN node ELSE cap

AddressedToSelfOnly(button, message) ==
    message.destination = button.handle

\* message.destination() == self.handle() || self.has_descendant(destination, ui)
AddressedTo(button, message) ==
    \/ message.destination = button.handle
    \/ HasDescendant(button.handle, message.destination)

\* the match on the WidgetMessage (lines 75-104)
Clicked(button, cap, message) ==
    CASE message.data = "WidgetMouseUp" ->
           [sent |-> <<Message("MyButtonClick", button.handle, "FromWidget", 0)>>,
            captured |-> "none"]
      [] message.data = "WidgetMouseDown" ->
           [sent |-> <<>>, captured |-> CaptureMouse(cap, message.destination)]
      [] message.data = "WidgetMouseEnter" ->
           [sent |-> SetColors(button, 220, 140), captured |-> cap]
      [] message.data = "WidgetMouseLeave" ->
           [sent |-> SetColors(button, 120, 100), captured |-> cap]
      [] OTHER -> [sent |-> <<>>, captured |-> cap]

\* MyButton::handle_routed_message.  The base widget's handler, called first, sets
\* properties of the widget and neither sends a message nor touches the capture.
HandleRoutedMessage(button, cap, message) ==
    IF IsWidgetMessage(message) /\ AddressedTo(button, message)
    THEN Clicked(button, cap, message)
    ELSE [sent |-> <<>>, captured |-> cap]

InitCustom ==
    /\ example = "ui_custom"
    /\ lastCall = "new"
    /\ keyLog = NoKeyLog
    /\ player = PlayerDefault
    /\ graph = RestGraph
    /\ animPlayer = AnimPlayerDefault
    /\ camera = CameraControllerDefault
    /\ UiAtRest
    /\ RestAtRest

\* The messages the user interface makes of the mouse: button, motion, enter and
\* leave messages for the widget under the cursor; and a message of another kind.
MouseMessages ==
    {Message(d, w, "FromWidget", 0) :
        d \in {"WidgetMouseUp", "WidgetMouseDown", "WidgetMouseEnter",
               "WidgetMouseLeave", "WidgetMouseMove"},
        w \in Widgets \ {"root"}}
        \cup {Message("ButtonClick", "my_button", "FromWidget", 0)}

MouseInput ==
    /\ example = "ui_custom"
    /\ Len(uiQueue) < MaxQueue
    /\ \E message \in MouseMessages : uiQueue' = Append(uiQueue, message)
    /\ lastCall' = "input"
    /\ UNCHANGED <<example, scriptVars, game, scenes, scrollBar, quality, resetRun,
                   restVars>>

\* UserInterface::poll_message hands the next message to the button
RouteMessage ==
    /\ example = "ui_custom"
    /\ uiQueue # <<>>
    /\ LET routed == HandleRoutedMessage(MyButtonBuilt, captured, Head(uiQueue))
       IN  /\ uiQueue' = Tail(uiQueue) \o routed.sent
           /\ captured' = routed.captured
    /\ lastCall' = "handle_routed_message"
    /\ UNCHANGED <<example, scriptVars, game, scenes, scrollBar, quality, resetRun,
                   blendGame, blendScene, entry, pc, executor, menu>>

NextCustom == MouseInput \/ RouteMessage

SpecCustom == InitCustom /\ [][NextCustom]_vars

\* the messages the step has appended to the queue
Sent == SubSeq(uiQueue', Len(uiQueue), Len(uiQueue'))

\* C7: routing a message to MyButton sends exactly one message, a Click FromWidget
\* with the button's own handle as destination, and leaves the mouse released, when
\* the message is a MouseUp for the button or one of its descendants; routing any
\* other message sends no Click.
C7_ClickOnMouseUp ==
    [][(example = "ui_custom" /\ lastCall' = "handle_routed_message") =>
          /\ uiQueue' = Tail(uiQueue) \o Sent
          /\ IF /\ Head(uiQueue).data = "WidgetMouseUp"
                /\ Head(uiQueue).destination \in {"my_button", "border", "text"}
             THEN /\ Sent = <<Message("MyButtonClick", "my_button", "FromWidget", 0)>>
                  /\ captured' = "none"
             ELSE \A i \in 1 .. Len(Sent) : Sent[i].data # "MyButtonClick"]_vars

\* the button was pressed and released on its text: a Click is on its way
C7_Witness ==
    /\ example = "ui_custom"
    /\ lastCall = "handle_routed_message"
    /\ captured = "none"
    /\ uiQueue = <<Message("MyButtonClick", "my_button", "FromWidget", 0)>>

(***************************************************************************)
(* Blend shape example (src/blendshape/game/src/lib.rs).                   *)
(*                                                                         *)
(* The scene is what the game reads and writes of it: the blend shapes of  *)
(* the mesh named Head_Mesh, the names of the blend shapes of its          *)
(* surfaces, and the rotation of the node named Gunan_animated2.fbx, if    *)
(* the scene has one.  Angles are in milliradians, weights in percent.     *)
(***************************************************************************)
MaxShapes == 3
MaxSteps == 1

\* the blend shape names, in the order of the BTreeSet
NameOrder == <<"ExpressionBlendshapes.Blink", "ExpressionBlendshapes.Smile">>

Names == {NameOrder[i] : i \in DOMAIN NameOrder}

Weights == {0, 40, 100}

SceneHandle == 1

\* the text Game::new builds before any slider
DebugText == 1

BlendShapeLists ==
    UNION {[1 .. n -> [name : Names, weight : {0}]] : n \in 0 .. MaxShapes}

\* the scenes data/scene.rgs may hold
BlendScenes ==
    [blend_shapes : BlendShapeLists, surface_names : SUBSET Names,
     model : {<<>>, <<Identity>>}]

\* the BTreeSet of the names, iterated: the names in order
Sorted(names) == SelectSeq(NameOrder, LAMBDA n : n \in names)

\* lines 109-126: a text and a slider a row, built one after the other
SlidersBuilt(names) ==
    [row \in DOMAIN Sorted(names) |-> <<Sorted(names)[row], DebugText + 2 * row>>]

BlendOnSceneLoaded(g, scene) ==
    [g EXCEPT !.model_handle = IF scene.model # <<>> THEN ModelHandle ELSE NONE,
              !.sliders = SlidersBuilt(scene.surface_names)]

\* the outcomes of loader.fetch_result()
FetchResults(g) ==
    IF g.loader = "loading"
    THEN {[kind |-> "None"], [kind |-> "Err"]}
             \cup {[kind |-> "Ok", scene |-> scene] : scene \in BlendScenes}
    ELSE {[kind |-> "None"]}

\* lines 164-174
Fetched(g, sc, result) ==
    CASE result.kind = "Ok" ->
           [game |-> [BlendOnSceneLoaded(g, result.scene)
                          EXCEPT !.scene = SceneHandle, !.loader = "fetched"],
            scene |-> result.scene]
      [] result.kind = "Err" ->
           [game |-> [g EXCEPT !.loader = "fetched"], scene |-> sc]
      [] OTHER -> [game |-> g, scene |-> sc]

\* lines 178-182
Rotated(g) ==
    IF g.input_controller.rotate_left
    THEN [g EXCEPT !.model_angle = @ - ToRadians(5)]
    ELSE IF g.input_controller.rotate_right
         THEN [g EXCEPT !.model_angle = @ + ToRadians(5)]
         ELSE g

\* lines 176-201: indexing the graph with a handle of no node panics
RotateModel(g, sc) ==
    IF g.scene = NONE
    THEN [game |-> g, scene |-> sc]
    ELSE IF g.model_handle = NONE
         THEN [game |-> [Rotated(g) EXCEPT !.panicked = TRUE], scene |-> sc]
         ELSE [game |-> Rotated(g),
               scene |-> [sc EXCEPT !.model =
                              <<FromAxisAngle("y", Rotated(g).model_angle)>>]]

\* Game::update
GameUpdate(g, sc, result) ==
    RotateModel(Fetched(g, sc, result).game, Fetched(g, sc, result).scene)

\* Game::on_os_event
BlendOnOsEvent(g, event) ==
    IF event.type = "KeyboardInput"
    THEN CASE event.physical_key = "KeyA" ->
                [g EXCEPT !.input_controller.rotate_left = (event.state = "Pressed")]
           [] event.physical_key = "KeyD" ->
                [g EXCEPT !.input_controller.rotate_right = (event.state = "Pressed")]
           [] OTHER -> g
    ELSE g

SetFirstWeight(blend_shapes, name, value) ==
    [i \in DOMAIN blend_shapes |->
        IF /\ blend_shapes[i].name = name
           /\ \A j \in 1 .. i - 1 : blend_shapes[j].name # name
        THEN [blend_shapes[i] EXCEPT !.weight = value]
        ELSE blend_shapes[i]]

\* lines 239-247
SetWeight(blend_shapes, name, value) ==
    [i \in DOMAIN blend_shapes |->
        IF blend_shapes[i].name = name
        THEN [blend_shapes[i] EXCEPT !.weight = value]
        ELSE blend_shapes[i]]

\* lines 235-249: the sliders, one after the other
RECURSIVE ForSliders(_, _, _)
ForSliders(sliders, blend_shapes, message) ==
    IF sliders = <<>>
    THEN blend_shapes
    ELSE ForSliders(Tail(sliders),
                    IF message.destination = Head(sliders)[2]
                    THEN SetWeight(blend_shapes, Head(sliders)[1], message.value)
                    ELSE blend_shapes,
                    message)

\* Game::on_ui_message
BlendOnUiMessage(g, sc, message) ==
    IF message.data = "ScrollBarValue" /\ message.direction = "FromWidget"
    THEN [sc EXCEPT !.blend_shapes = ForSliders(g.sliders, @, message)]
    ELSE sc

InitBlend ==
    /\ example = "blendshape"
    /\ lastCall = "new"
    /\ keyLog = NoKeyLog
    /\ player = PlayerDefault
    /\ graph = RestGraph
    /\ animPlayer = AnimPlayerDefault
    /\ camera = CameraControllerDefault
    /\ UiAtRest
    /\ RestAtRest

\* The angle is unbounded in the code; the model stops turning MaxSteps steps
\* either side of where it starts.
AngleInRange(angle) ==
    /\ angle >= ToRadians(180) - MaxSteps * ToRadians(5)
    /\ angle <= ToRadians(180) + MaxSteps * ToRadians(5)

BlendUpdate ==
    /\ example = "blendshape"
    /\ ~blendGame.panicked
    /\ \E result \in FetchResults(blendGame) :
           LET updated == GameUpdate(blendGame, blendScene, result)
           IN  /\ AngleInRange(updated.game.model_angle)
               /\ blendGame' = updated.game
               /\ blendScene' = updated.scene
    /\ lastCall' = "update"
    /\ UNCHANGED <<example, scriptVars, uiVars, captured, entry, pc, executor, menu>>

\* the events of the window: the two keys of the game, another key, another event
BlendEvents ==
    {event \in KeyboardInput : event.physical_key \in {"KeyA", "KeyD", "KeyW"}}
        \cup {[type |-> "Resized"]}

BlendOsEvent ==
    /\ example = "blendshape"
    /\ ~blendGame.panicked
    /\ \E event \in BlendEvents : blendGame' = BlendOnOsEvent(blendGame, event)
    /\ lastCall' = "on_os_event"
    /\ UNCHANGED <<example, scriptVars, uiVars, captured, blendScene, entry, pc,
                   executor, menu>>

\* The messages of the user interface: the values the sliders report and are
\* sent, a value for a widget that is no slider, and a message of another kind.
BlendMessages ==
    {Message("ScrollBarValue", destination, direction, value) :
        destination \in {DebugText} \cup {DebugText + 2 * row : row \in DOMAIN NameOrder},
        direction \in {"FromWidget", "ToWidget"},
        value \in Weights \ {0}}
        \cup {Message("WidgetMouseMove", DebugText + 2, "FromWidget", 100)}

\* the user interface has a message for the plugin
BlendUiInput ==
    /\ example = "blendshape"
    /\ ~blendGame.panicked
    /\ uiQueue = <<>>
    /\ \E message \in BlendMessages : uiQueue' = <<message>>
    /\ lastCall' = "input"
    /\ UNCHANGED <<example, scriptVars, game, scenes, scrollBar, quality, resetRun,
                   restVars>>

\* the engine polls the message and calls on_ui_message with it
BlendPollMessage ==
    /\ example = "blendshape"
    /\ ~blendGame.panicked
    /\ uiQueue # <<>>
    /\ uiQueue' = Tail(uiQueue)
    /\ blendScene' = BlendOnUiMessage(blendGame, blendScene, Head(uiQueue))
    /\ lastCall' = "on_ui_message"
    /\ UNCHANGED <<example, scriptVars, game, scenes, scrollBar, quality, resetRun,
                   captured, blendGame, entry, pc, executor, menu>>

NextBlend == BlendUpdate \/ BlendOsEvent \/ BlendUiInput \/ BlendPollMessage

SpecBlend == InitBlend /\ [][NextBlend]_vars

\* the names the slider of that handle is registered for
RegisteredFor(handle) ==
    {blendGame.sliders[i][1] : i \in {j \in DOMAIN blendGame.sliders :
                                          blendGame.sliders[j][2] = handle}}

\* C5: on_ui_message with a ScrollBar Value message FromWidget whose destination is
\* the slider registered for the name N sets the weight of every blend shape of
\* Head_Mesh named N to the value of the message and leaves every other weight as
\* it was; with a Value message ToWidget, or one for a widget that is no registered
\* slider, it changes no weight.
C5_SliderSetsWeightsOfItsName ==
    [][(example = "blendshape" /\ lastCall' = "on_ui_message") =>
          LET message == Head(uiQueue)
              before == blendScene.blend_shapes
              after == blendScene'.blend_shapes
          IN  /\ DOMAIN after = DOMAIN before
              /\ \A i \in DOMAIN before : after[i].name = before[i].name
              /\ IF /\ message.data = "ScrollBarValue"
                    /\ message.direction = "FromWidget"
                    /\ RegisteredFor(message.destination) # {}
                 THEN \A i \in DOMAIN before :
                          after[i].weight =
                              IF before[i].name \in RegisteredFor(message.destination)
                              THEN message.value
                              ELSE before[i].weight
                 ELSE message.data = "ScrollBarValue" => after = before]_vars

\* the slider of Smile has set both blend shapes of that name and not the third
C5_Witness ==
    /\ example = "blendshape"
    /\ lastCall = "on_ui_message"
    /\ Len(blendScene.blend_shapes) = 3
    /\ \E i, j, k \in 1 .. 3 :
           /\ i # j
           /\ blendScene.blend_shapes[i] =
                  [name |-> "ExpressionBlendshapes.Smile", weight |-> 40]
           /\ blendScene.blend_shapes[j] =
                  [name |-> "ExpressionBlendshapes.Smile", weight |-> 40]
           /\ blendScene.blend_shapes[k] =
                  [name |-> "ExpressionBlendshapes.Blink", weight |-> 0]

\* what an update does to model_angle with the flags as they are
Turned ==
    IF blendGame.input_controller.rotate_left
    THEN blendGame.model_angle - ToRadians(5)
    ELSE IF blendGame.input_controller.rotate_right
         THEN blendGame.model_angle + ToRadians(5)
         ELSE blendGame.model_angle

\* C12 as stated: every update with a valid scene handle turns model_angle by 5
\* degrees, down with rotate_left, else up with rotate_right, else not at all, and
\* sets the rotation of the model node to model_angle about Y; an update without a
\* valid scene handle leaves model_angle at its initial 180 degrees.
C12_KeysRotateTheModel ==
    [][(example = "blendshape" /\ lastCall' = "update") =>
          IF blendGame'.scene # NONE
          THEN /\ blendGame'.model_angle = Turned
               /\ ~blendGame'.panicked
               /\ blendScene'.model = <<FromAxisAngle("y", blendGame'.model_angle)>>
          ELSE /\ blendGame'.model_angle = blendGame.model_angle
               /\ blendGame'.model_angle = ToRadians(180)]_vars

\* C12, where the scene has a node named Gunan_animated2.fbx: the same, for every
\* update that finds the model.
C12_KeysRotateTheModelFound ==
    [][(example = "blendshape" /\ lastCall' = "update") =>
          IF blendGame'.scene # NONE
          THEN /\ blendGame'.model_angle = Turned
               /\ blendGame'.model_handle # NONE =>
                      /\ ~blendGame'.panicked
                      /\ blendScene'.model =
                             <<FromAxisAngle("y", blendGame'.model_angle)>>
               /\ blendGame'.model_handle = NONE =>
                      blendGame'.panicked /\ blendScene'.model = <<>>
          ELSE /\ blendGame'.model_angle = blendGame.model_angle
               /\ blendGame'.model_angle = ToRadians(180)]_vars

\* the scene came without the model: the update that loaded it has panicked
C12_Witness ==
    /\ example = "blendshape"
    /\ lastCall = "update"
    /\ blendGame.scene = SceneHandle
    /\ blendGame.model_handle = NONE
    /\ blendGame.panicked
    /\ blendScene.model = <<>>

\* D is held and the model is there: it has turned to 185 degrees
C12_WitnessTurned ==
    /\ example = "blendshape"
    /\ lastCall = "update"
    /\ blendGame.input_controller.rotate_right
    /\ ~blendGame.panicked
    /\ blendScene.model = <<FromAxisAngle("y", ToRadians(180) + ToRadians(5))>>

(***************************************************************************)
(* The entry points: the main of every executor and of the editor, as the  *)
(* statements it runs, in the order Rust evaluates them.                   *)
(***************************************************************************)
Stmt(op, arg) == [op |-> op, arg |-> arg]

Platformer2dWasmMain ==
    <<Stmt("set_panic_hook", "custom_panic_hook"),
      Stmt("event_loop", "new"),
      Stmt("window_attributes", "literal"),
      Stmt("executor", "from_params"),
      Stmt("add", "GameConstructor"),
      Stmt("run", "executor")>>

AnimationExecutorMain ==
    <<Stmt("window_attributes", "default"),
      Stmt("inner_size", "1280x720"),
      Stmt("title", "Animation"),
      Stmt("event_loop", "unwrap"),
      Stmt("executor", "from_params"),
      Stmt("add", "GameConstructor"),
      Stmt("run", "executor")>>

BlendshapeWasmMain ==
    <<Stmt("window_attributes", "default"),
      Stmt("inner_size", "1280x720"),
      Stmt("resizable", "true"),
      Stmt("event_loop", "ok"),
      Stmt("executor", "from_params"),
      Stmt("add", "Game"),
      Stmt("run", "executor")>>

LightmapEditorMainRunFirst ==
    <<Stmt("event_loop", "unwrap"),
      Stmt("executor", "editor"),
      Stmt("run", "editor"),
      Stmt("add", "Game")>>

LightmapEditorMain ==
    <<Stmt("event_loop", "unwrap"),
      Stmt("executor", "editor"),
      Stmt("add", "Game"),
      Stmt("run", "editor")>>

LightmapWasmMain ==
    <<Stmt("event_loop", "ok"),
      Stmt("executor", "new"),
      Stmt("add", "Game"),
      Stmt("run", "executor")>>

LightmapExecutorMain ==
    <<Stmt("executor", "new_with_event_loop"),
      Stmt("add", "Game"),
      Stmt("run", "executor")>>

PlatformerWasmMain ==
    <<Stmt("window_attributes", "default"),
      Stmt("inner_size", "800x600"),
      Stmt("resizable", "true"),
      Stmt("title", "Platformer"),
      Stmt("event_loop", "ok"),
      Stmt("executor", "from_params"),
      Stmt("add", "Game"),
      Stmt("run", "executor")>>

PlatformerExecutorMain ==
    <<Stmt("event_loop", "unwrap"),
      Stmt("executor", "new"),
      Stmt("add", "Game"),
      Stmt("run", "executor")>>

SoundWasmMain ==
    <<Stmt("set_panic_hook", "custom_panic_hook"),
      Stmt("window_attributes", "default"),
      Stmt("inner_size", "1280x720"),
      Stmt("resizable", "true"),
      Stmt("event_loop", "unwrap"),
      Stmt("executor", "from_params"),
      Stmt("add", "Game"),
      Stmt("run", "executor")>>

SoundExecutorMain ==
    <<Stmt("executor", "new_with_event_loop"),
      Stmt("add", "Game"),
      Stmt("run", "executor")>>

UiWasmMain ==
    <<Stmt("window_attributes", "default"),
      Stmt("inner_size", "1280x720"),
      Stmt("title", "User Interface"),
      Stmt("resizable", "true"),
      Stmt("event_loop", "ok"),
      Stmt("executor", "from_params"),
      Stmt("add", "Game"),
      Stmt("run", "executor")>>

UiExecutorMain ==
    <<Stmt("window_attributes", "default"),
      Stmt("inner_size", "1280x720"),
      Stmt("title", "User Interface"),
      Stmt("resizable", "true"),
      Stmt("event_loop", "unwrap"),
      Stmt("executor", "from_params"),
      Stmt("add", "Game"),
      Stmt("run", "executor")>>

EntryPoints ==
    {"2d/platformer/executor-wasm", "animation/executor", "blendshape/executor-wasm",
     "lightmap/editor", "lightmap/executor-wasm", "lightmap/executor",
     "platformer/executor-wasm", "platformer/executor", "sound/executor-wasm",
     "sound/executor", "ui/executor-wasm", "ui/executor"}

Main(e) ==
    CASE e = "2d/platformer/executor-wasm" -> Platformer2dWasmMain
      [] e = "animation/executor"          -> AnimationExecutorMain
      [] e = "blendshape/executor-wasm"    -> BlendshapeWasmMain
      [] e = "lightmap/editor"             -> LightmapEditorMain
      [] e = "lightmap/executor-wasm"      -> LightmapWasmMain
      [] e = "lightmap/executor"           -> LightmapExecutorMain
      [] e = "platformer/executor-wasm"    -> PlatformerWasmMain
      [] e = "platformer/executor"         -> PlatformerExecutorMain
      [] e = "sound/executor-wasm"         -> SoundWasmMain
      [] e = "sound/executor"              -> SoundExecutorMain
      [] e = "ui/executor-wasm"            -> UiWasmMain
      [] e = "ui/executor"                 -> UiExecutorMain

\* WindowAttributes::default(), as far as the mains write it
WindowAttributesDefault ==
    [inner_size |-> "None", title |-> "winit window", resizable |-> "true"]

\* the struct literal of 2d/platformer/executor-wasm
WindowAttributesLiteral ==
    [inner_size |-> "800x600", title |-> "Platformer", resizable |-> "true"]

InitMain ==
    /\ example = "main"
    /\ lastCall = "new"
    /\ keyLog = NoKeyLog
    /\ player = PlayerDefault
    /\ graph = RestGraph
    /\ animPlayer = AnimPlayerDefault
    /\ camera = CameraControllerDefault
    /\ UiAtRest
    /\ captured = "none"
    /\ blendGame = BlendGameNew
    /\ blendScene = NoScene
    /\ entry \in EntryPoints
    /\ pc = 0
    /\ executor = NoExecutor
    /\ menu = MenuAtRest

\* the next statement of the main is a statement of that kind
AtStmt(ops) ==
    /\ example = "main"
    /\ executor.state \notin {"running", "panicked"}
    /\ pc < Len(Main(entry))
    /\ Main(entry)[pc + 1].op \in ops

\* what every statement leaves alone
MainFrame ==
    /\ lastCall' = "main"
    /\ UNCHANGED <<example, scriptVars, uiVars, captured, blendGame, blendScene, entry,
                   menu>>

SetPanicHook ==
    /\ AtStmt({"set_panic_hook"})
    /\ executor' = [executor EXCEPT !.panic_hook = TRUE]
    /\ pc' = pc + 1
    /\ MainFrame

NewWindowAttributes ==
    /\ AtStmt({"window_attributes"})
    /\ executor' = [executor EXCEPT !.window_attributes =
                        IF Main(entry)[pc + 1].arg = "default"
                        THEN <<WindowAttributesDefault>>
                        ELSE <<WindowAttributesLiteral>>]
    /\ pc' = pc + 1
    /\ MainFrame

SetWindowAttribute ==
    /\ AtStmt({"inner_size", "title", "resizable"})
    /\ LET stmt == Main(entry)[pc + 1]
       IN  executor' = [executor EXCEPT !.window_attributes[1][stmt.op] = stmt.arg]
    /\ pc' = pc + 1
    /\ MainFrame

\* EventLoop::new() fails or not; unwrap panics on the failure, ok makes None of it
NewEventLoop ==
    /\ AtStmt({"event_loop"})
    /\ \E built \in BOOLEAN :
           executor' =
               IF built
               THEN [executor EXCEPT !.event_loop = "Some"]
               ELSE IF Main(entry)[pc + 1].arg = "ok"
                    THEN [executor EXCEPT !.event_loop = "None"]
                    ELSE [executor EXCEPT !.state = "panicked"]
    /\ pc' = pc + 1
    /\ MainFrame

\* Executor::new, Executor::from_params, Editor::new.  The Executor::new that takes
\* no event loop makes its own, and panics when it cannot.
NewExecutor ==
    /\ AtStmt({"executor"})
    /\ LET how == Main(entry)[pc + 1].arg
       IN  \E built \in BOOLEAN :
               executor' =
                   IF how = "new_with_event_loop"
                   THEN IF built
                        THEN [executor EXCEPT !.built = how, !.event_loop = "Some"]
                        ELSE [executor EXCEPT !.state = "panicked"]
                   ELSE [executor EXCEPT !.built = how]
    /\ pc' = pc + 1
    /\ MainFrame

\* add_plugin, add_plugin_constructor, add_game_plugin
AddPlugin ==
    /\ AtStmt({"add"})
    /\ executor' = [executor EXCEPT !.plugins = Append(@, Main(entry)[pc + 1].arg)]
    /\ pc' = pc + 1
    /\ MainFrame

\* run: the loop of the engine starts.  Without an event loop the engine runs
\* without a window or gives up, as its version has it.
Run ==
    /\ AtStmt({"run"})
    /\ \E headless \in BOOLEAN :
           executor' = [executor EXCEPT !.state =
                            IF executor.event_loop = "Some" \/ headless
                            THEN "running"
                            ELSE "panicked"]
    /\ pc' = pc + 1
    /\ MainFrame

\* the loop of the engine ends and run returns
Exit ==
    /\ example = "main"
    /\ executor.state = "running"
    /\ executor' = [executor EXCEPT !.state = "exited"]
    /\ UNCHANGED pc
    /\ MainFrame

NextMain ==
    \/ SetPanicHook
    \/ NewWindowAttributes
    \/ SetWindowAttribute
    \/ NewEventLoop
    \/ NewExecutor
    \/ AddPlugin
    \/ Run
    \/ Exit

SpecMain == InitMain /\ [][NextMain]_vars

RunCalled == executor.state \in {"running", "exited"}

\* C6: every entry point has registered exactly one game plugin or plugin
\* constructor when it calls run, ends with that call unless it has panicked
\* before, and registers nothing once run is called.
C6_OnePluginBeforeRun ==
    /\ [][(example = "main" /\ RunCalled) => executor'.plugins = executor.plugins]_vars
    /\ [](example = "main" =>
             /\ RunCalled => Len(executor.plugins) = 1
             /\ pc = Len(Main(entry)) => RunCalled \/ executor.state = "panicked"
             /\ \A e \in EntryPoints :
                    \E i \in DOMAIN Main(e) : Main(e)[i].op = "run")

\* the editor runs with the one game plugin it was given
C6_Witness ==
    /\ example = "main"
    /\ entry = "lightmap/editor"
    /\ executor.state = "running"
    /\ executor.built = "editor"
    /\ executor.plugins = <<"Game">>

(***************************************************************************)
(* Animation example: Player::on_update (src/animation/game/src/player.rs).*)
(*                                                                         *)
(* The graph holds the node of the script, the four nodes the script       *)
(* turns and the node of the animation blending state machine.  Yaw and    *)
(* pitch are in the unit of on_os_event, the angles of model_yaw in        *)
(* milliradians, velocities in whole units a second.                       *)
(***************************************************************************)
BodyNode == 1
ModelPivotNode == 2
ModelNode == 3
CameraPivotNode == 4
CameraHingeNode == 5
MachineNode == 6

AnimHandles == BodyNode .. MachineNode

Zero3 == <<0, 0, 0>>

\* transform.transform_vector(&root_motion.delta_position).scale(1.0 / ctx.dt): the
\* velocities a pose may give, along the ground and straight up
Velocities == {<<1, 0, 2>>, <<0, 3, 0>>}

\* machine().pose().root_motion(): None, or the velocity it stands for
RootMotions == {<<>>} \cup {<<v>> : v \in Velocities}

\* root_motion is that of the pose of a state machine
AnimNode(kind) ==
    [kind |-> kind, rotation |-> Identity, lin_vel |-> Zero3, ang_vel |-> Zero3,
     parameters |-> [Moving |-> FALSE, MoveAnimationIndex |-> 0],
     root_motion |-> <<>>]

\* try_get(handle).and_then(query_component_ref::<AnimationBlendingStateMachine>)
IsMachine(g, handle) == handle \in DOMAIN g /\ g[handle].kind = "AnimationBlendingStateMachine"

\* lines 95-106
Velocity(p, g) ==
    IF IsMachine(g, p.state_machine) /\ g[p.state_machine].root_motion # <<>>
    THEN g[p.state_machine].root_motion[1]
    ELSE Zero3

TurnAngleRightFirst(p) ==
    IF p.walk_right
    THEN IF p.walk_forward THEN -45 ELSE IF p.walk_backward THEN -135 ELSE -90
    ELSE IF p.walk_left
         THEN IF p.walk_forward THEN 45 ELSE IF p.walk_backward THEN 135 ELSE 90
         ELSE IF p.walk_backward THEN 180 ELSE 0

\* lines 125-143
TurnAngle(p) ==
    IF p.walk_left
    THEN IF p.walk_forward THEN 45 ELSE IF p.walk_backward THEN 135 ELSE 90
    ELSE IF p.walk_right
         THEN IF p.walk_forward THEN -45 ELSE IF p.walk_backward THEN -135 ELSE -90
         ELSE IF p.walk_backward THEN 180 ELSE 0

\* SmoothAngle::set_target(..).update(dt): the angle turns toward the target by
\* speed * dt.  The model has two speeds: 0, the angle stays, and 1, a speed that
\* takes the angle to any target within a tick.
SmoothAngleUpdate(smooth_angle, target) ==
    [smooth_angle EXCEPT !.target = target,
                         !.angle = IF smooth_angle.speed > 0 THEN target ELSE @]

SetRotation(g, handle, rotation) ==
    IF handle \in DOMAIN g THEN [g EXCEPT ![handle].rotation = rotation] ELSE g

SetVelocitiesKeepSpin(body, velocity) ==
    [body EXCEPT !.lin_vel = <<velocity[1], body.lin_vel[2], velocity[3]>>]

\* lines 111-112
SetVelocities(body, velocity) ==
    [body EXCEPT !.ang_vel = Zero3,
                 !.lin_vel = <<velocity[1], body.lin_vel[2], velocity[3]>>]

\* velocity.norm_squared() > 0.0
IsMoving(velocity) == velocity # Zero3

SyncModelAlways(p, g, velocity) ==
    LET model_yaw == SmoothAngleUpdate(p.model_yaw, ToRadians(TurnAngle(p)))
        synced == SetRotation(g, p.model_pivot, FromAxisAngle("y", p.yaw))
    IN  [player |-> [p EXCEPT !.model_yaw = model_yaw],
         graph  |-> SetRotation(synced, p.model,
                                FromAxisAngle("y", model_yaw.angle))]

\* lines 114-156
SyncModel(p, g, velocity) ==
    IF IsMoving(velocity)
    THEN LET model_yaw == SmoothAngleUpdate(p.model_yaw, ToRadians(TurnAngle(p)))
             synced == SetRotation(g, p.model_pivot, FromAxisAngle("y", p.yaw))
         IN  [player |-> [p EXCEPT !.model_yaw = model_yaw],
              graph  |-> SetRotation(synced, p.model,
                                     FromAxisAngle("y", model_yaw.angle))]
    ELSE [player |-> p, graph |-> g]

\* lines 158-170
TurnCamera(p, g) ==
    SetRotation(SetRotation(g, p.camera_pivot, FromAxisAngle("y", p.yaw)),
                p.camera_hinge, FromAxisAngle("x", p.pitch))

\* lines 108-171
MoveBody(p, g, velocity) ==
    IF g[BodyNode].kind = "RigidBody"
    THEN LET moved == [g EXCEPT ![BodyNode] = SetVelocities(g[BodyNode], velocity)]
             synced == SyncModel(p, moved, velocity)
         IN  [player |-> synced.player, graph |-> TurnCamera(p, synced.graph)]
    ELSE [player |-> p, graph |-> g]

SetParametersOfWalk(p, g) ==
    IF IsMachine(g, p.state_machine)
    THEN [g EXCEPT ![p.state_machine].parameters =
             [Moving |-> p.walk_forward \/ p.walk_backward,
              MoveAnimationIndex |-> IF p.run THEN 1 ELSE 0]]
    ELSE g

\* lines 173-189
SetParameters(p, g) ==
    IF IsMachine(g, p.state_machine)
    THEN [g EXCEPT ![p.state_machine].parameters =
             [Moving |-> p.walk_left \/ p.walk_right \/ p.walk_forward
                             \/ p.walk_backward,
              MoveAnimationIndex |-> IF p.run THEN 1 ELSE 0]]
    ELSE g

\* line 89: &ctx.scene.graph[*self.model] panics when the handle names no node
AnimOnUpdateFails(p, g) == p.model \notin DOMAIN g

\* Player::on_update
AnimPlayerOnUpdate(p, g) ==
    LET moved == MoveBody(p, g, Velocity(p, g))
    IN  [player |-> moved.player, graph |-> SetParameters(p, moved.graph)]

\* The handles of a Player and the speed of its turn are set in the editor and
\* loaded with the scene: the model and the state machine are assigned or not, and
\* so are, together, the pivots and the hinge.
LoadedAnimPlayers ==
    {[AnimPlayerDefault EXCEPT
          !.model = model, !.state_machine = state_machine,
          !.model_yaw.speed = speed,
          !.model_pivot = IF rig THEN ModelPivotNode ELSE NONE,
          !.camera_pivot = IF rig THEN CameraPivotNode ELSE NONE,
          !.camera_hinge = IF rig THEN CameraHingeNode ELSE NONE] :
        model \in {ModelNode, NONE}, state_machine \in {MachineNode, NONE},
        rig \in BOOLEAN, speed \in {0, 1}}

\* The scenes: the node of the script is a rigid body, falling and spinning, or a
\* node of another kind; the node the state machine handle names is a state machine
\* with its parameters as saved, or a node of another kind.
AnimGraphs ==
    {[h \in AnimHandles |->
        CASE h = BodyNode ->
               [AnimNode(body) EXCEPT !.lin_vel = <<4, -2, 4>>, !.ang_vel = <<0, 1, 0>>]
          [] h = MachineNode ->
               [AnimNode(machine) EXCEPT
                    !.parameters = [Moving |-> TRUE, MoveAnimationIndex |-> 1]]
          [] OTHER -> AnimNode("Pivot")] :
        body \in {"RigidBody", "Pivot"},
        machine \in {"AnimationBlendingStateMachine", "Pivot"}}

\* Scenes that differ in what no tick reads are taken once: the kind of a node no
\* handle names, the handles of the pivots under a node that is no rigid body, the
\* speed of a turn that cannot start.
Distinct(p, g) ==
    /\ p.state_machine = NONE => g[MachineNode].kind = "AnimationBlendingStateMachine"
    /\ g[BodyNode].kind # "RigidBody" => p.model_pivot # NONE
    /\ p.model_yaw.speed = 0 =>
           g[BodyNode].kind = "RigidBody" /\ IsMachine(g, p.state_machine)

InitAnimation ==
    /\ example = "animation_update"
    /\ lastCall = "new"
    /\ keyLog = NoKeyLog
    /\ player = PlayerDefault
    /\ graph \in AnimGraphs
    /\ animPlayer \in LoadedAnimPlayers
    /\ Distinct(animPlayer, graph)
    /\ camera = CameraControllerDefault
    /\ UiAtRest
    /\ RestAtRest

\* the events of the window and the mouse: the five keys of the script, the mouse
\* dragged up and right, and another event
AnimEvents ==
    {event \in KeyboardInput : event.physical_key \in KeyCodes \ {"Space", "KeyQ"}}
        \cup {event \in MouseMotion : event.dx = event.dy /\ event.dx > 0}
        \cup {[type |-> "Resized"]}

AnimOsEvent ==
    /\ example = "animation_update"
    /\ lastCall # "panicked"
    /\ \E event \in AnimEvents :
           /\ animPlayer' = AnimPlayerOnOsEvent(animPlayer, event)
           /\ animPlayer'.yaw \in -YawCap .. YawCap
    /\ lastCall' = "on_os_event"
    /\ UNCHANGED <<example, keyLog, player, graph, camera, uiVars, restVars>>

\* the tick of the engine
AnimOnUpdate ==
    /\ example = "animation_update"
    /\ lastCall # "panicked"
    /\ IF AnimOnUpdateFails(animPlayer, graph)
       THEN /\ lastCall' = "panicked"
            /\ UNCHANGED <<animPlayer, graph>>
       ELSE /\ LET after == AnimPlayerOnUpdate(animPlayer, graph)
               IN  /\ animPlayer' = after.player
                   /\ graph' = after.graph
            /\ lastCall' = "on_update"
    /\ UNCHANGED <<example, keyLog, player, camera, uiVars, restVars>>

\* Between ticks the engine plays the animations, which gives the state machine its
\* pose, and steps the physics: gravity pulls a rigid body down, a contact spins it.
AnimEngineStep ==
    /\ example = "animation_update"
    /\ lastCall # "panicked"
    /\ \E root_motion \in RootMotions :
           graph' = [h \in AnimHandles |->
                        CASE h = MachineNode ->
                               [graph[h] EXCEPT !.root_motion = root_motion]
                          [] h = BodyNode /\ graph[h].kind = "RigidBody" ->
                               [graph[h] EXCEPT !.lin_vel = <<@[1], -2, @[3]>>,
                                                !.ang_vel = <<0, 1, 0>>]
                          [] OTHER -> graph[h]]
    /\ lastCall' = "engine"
    /\ UNCHANGED <<example, keyLog, player, animPlayer, camera, uiVars, restVars>>

NextAnimation == AnimOsEvent \/ AnimOnUpdate \/ AnimEngineStep

SpecAnimation == InitAnimation /\ [][NextAnimation]_vars

AnimTick == example = "animation_update" /\ lastCall' = "on_update"

AnimTicked == example = "animation_update" /\ lastCall = "on_update"

BodyIsRigid == graph[BodyNode].kind = "RigidBody"

\* the root-motion velocity of the tick: that of the pose of the state machine, zero
\* without a state machine or without root motion
TickVelocity ==
    IF /\ animPlayer.state_machine \in AnimHandles
       /\ graph[animPlayer.state_machine].kind = "AnimationBlendingStateMachine"
       /\ graph[animPlayer.state_machine].root_motion # <<>>
    THEN graph[animPlayer.state_machine].root_motion[1]
    ELSE Zero3

\* C13: a tick with zero root-motion velocity leaves the rotation of the model pivot
\* and of the model as they were; a tick of a rigid body with a velocity that is not
\* zero sets the model pivot to the yaw about Y and the model to the angle of
\* model_yaw about Y; every tick of a rigid body sets the camera pivot to the yaw
\* about Y and the camera hinge to the pitch about X.
C13_ModelSyncedOnlyWhileMoving ==
    [][AnimTick =>
          /\ (TickVelocity = Zero3 \/ ~BodyIsRigid) =>
                 /\ graph'[ModelPivotNode].rotation = graph[ModelPivotNode].rotation
                 /\ graph'[ModelNode].rotation = graph[ModelNode].rotation
          /\ (TickVelocity # Zero3 /\ BodyIsRigid) =>
                 /\ animPlayer.model_pivot = ModelPivotNode =>
                        graph'[ModelPivotNode].rotation = [axis |-> "y", angle |-> animPlayer.yaw]
                 /\ graph'[ModelNode].rotation =
                        [axis |-> "y", angle |-> animPlayer'.model_yaw.angle]
          /\ BodyIsRigid =>
                 /\ animPlayer.camera_pivot = CameraPivotNode =>
                        graph'[CameraPivotNode].rotation =
                            [axis |-> "y", angle |-> animPlayer.yaw]
                 /\ animPlayer.camera_hinge = CameraHingeNode =>
                        graph'[CameraHingeNode].rotation =
                            [axis |-> "x", angle |-> animPlayer.pitch]]_vars

\* the character has walked, stopped, and the mouse has turned the camera since:
\* the camera pivot has the new yaw, the model pivot still the old
C13_Witness ==
    /\ AnimTicked /\ BodyIsRigid
    /\ TickVelocity = Zero3
    /\ animPlayer.yaw = -450
    /\ graph[CameraPivotNode].rotation = [axis |-> "y", angle |-> -450]
    /\ graph[CameraHingeNode].rotation = [axis |-> "x", angle |-> 450]
    /\ graph[ModelPivotNode].rotation = [axis |-> "y", angle |-> 0]

\* the target angle of C14, in degrees, by the priority it gives
TargetDegrees ==
    CASE animPlayer.walk_left /\ animPlayer.walk_forward   -> 45
      [] animPlayer.walk_left /\ animPlayer.walk_backward  -> 135
      [] animPlayer.walk_left                              -> 90
      [] animPlayer.walk_right /\ animPlayer.walk_forward  -> -45
      [] animPlayer.walk_right /\ animPlayer.walk_backward -> -135
      [] animPlayer.walk_right                             -> -90
      [] animPlayer.walk_backward                          -> 180
      [] OTHER                                             -> 0

\* C14: a tick that turns the model (a rigid body, a velocity that is not zero) sets
\* the target of model_yaw to the angle the walk flags give by the priority: left
\* (45 with forward, else 135 with backward, else 90), else right (-45, -135, -90),
\* else 180 for backward, else 0.
C14_TurnAngleByPriority ==
    [][(AnimTick /\ BodyIsRigid /\ TickVelocity # Zero3) =>
          animPlayer'.model_yaw.target = (TargetDegrees * 17453) \div 1000]_vars

\* left and right and backward are held, forward is not: the target is 135 degrees
C14_Witness ==
    /\ AnimTicked /\ BodyIsRigid
    /\ animPlayer.walk_left /\ animPlayer.walk_right
    /\ animPlayer.walk_backward /\ ~animPlayer.walk_forward
    /\ animPlayer.model_yaw.target = 2356
    /\ graph[ModelNode].rotation = [axis |-> "y", angle |-> 2356]

\* C15: a tick of a rigid body sets its angular velocity to zero and its linear
\* velocity to the root-motion velocity in x and z, with y as it was; without a
\* state machine or without root motion x and z are zero, whatever keys are held.
C15_BodyFollowsRootMotion ==
    [][(AnimTick /\ BodyIsRigid) =>
          /\ graph'[BodyNode].ang_vel = <<0, 0, 0>>
          /\ graph'[BodyNode].lin_vel =
                 <<TickVelocity[1], graph[BodyNode].lin_vel[2], TickVelocity[3]>>
          /\ (\/ animPlayer.state_machine \notin AnimHandles
              \/ graph[animPlayer.state_machine].kind # "AnimationBlendingStateMachine"
              \/ graph[animPlayer.state_machine].root_motion = <<>>) =>
                 /\ graph'[BodyNode].lin_vel[1] = 0
                 /\ graph'[BodyNode].lin_vel[3] = 0]_vars

\* W is held and there is no state machine: the spinning, falling body has been
\* stopped but for its fall
C15_Witness ==
    /\ AnimTicked /\ BodyIsRigid
    /\ animPlayer.state_machine = NONE
    /\ animPlayer.walk_forward
    /\ graph[BodyNode].ang_vel = <<0, 0, 0>>
    /\ graph[BodyNode].lin_vel = <<0, -2, 0>>

\* C16: after a tick with a state machine, Moving is the disjunction of the four walk
\* flags and MoveAnimationIndex is 1 with run set and 0 without, on a rigid body or
\* not, moving or not.
C16_ParametersFollowFlags ==
    (/\ AnimTicked
     /\ animPlayer.state_machine \in AnimHandles
     /\ graph[animPlayer.state_machine].kind = "AnimationBlendingStateMachine") =>
        /\ graph[animPlayer.state_machine].parameters.Moving =
               (\/ animPlayer.walk_left \/ animPlayer.walk_right
                \/ animPlayer.walk_forward \/ animPlayer.walk_backward)
        /\ graph[animPlayer.state_machine].parameters.MoveAnimationIndex =
               IF animPlayer.run THEN 1 ELSE 0

\* only S is held, on a node that is no rigid body: Moving is set, the index is 0
C16_Witness ==
    /\ AnimTicked /\ ~BodyIsRigid
    /\ animPlayer.walk_backward
    /\ ~animPlayer.walk_left /\ ~animPlayer.walk_right /\ ~animPlayer.walk_forward
    /\ ~animPlayer.run
    /\ graph[MachineNode].parameters = [Moving |-> TRUE, MoveAnimationIndex |-> 0]

(***************************************************************************)
(* Platformer: the Game plugin and its menu (src/platformer/game/src/      *)
(* lib.rs, lines 54-111).  A user interface is the names of its widgets by *)
(* handle, the root first.                                                 *)
(***************************************************************************)
\* what data/menu.ui may load into: the menu as it is, a menu with the buttons in
\* another place, a menu without a NewGame button and a debug text
LoadedMenus ==
    {<<"Root", "NewGame", "Exit", "DebugText", "Title">>,
     <<"Root", "Title", "DebugText", "Exit", "NewGame">>,
     <<"Root", "Exit", "Title">>}

\* UserInterface::find_by_name_down_from_root: the first widget of that name, or NONE
FindByNameDownFromRoot(ui, name) ==
    IF \E h \in DOMAIN ui : ui[h] = name
    THEN CHOOSE h \in DOMAIN ui : ui[h] = name /\ \A k \in 1 .. h - 1 : ui[k] # name
    ELSE NONE

\* the closure of the task (lines 67-72), with the result unwrapped
MenuLoaded(g, ui) ==
    [g EXCEPT !.new_game = FindByNameDownFromRoot(ui, "NewGame"),
              !.exit = FindByNameDownFromRoot(ui, "Exit"),
              !.debug_text = FindByNameDownFromRoot(ui, "DebugText")]

MenuOnUiMessageAnyMessage(m, message) ==
    IF message.destination = m.game.new_game
    THEN [sent |-> <<Message("WidgetVisibility", RootHandle, "ToWidget", 0)>>,
          exit |-> m.exit]
    ELSE IF message.destination = m.game.exit
         THEN [sent |-> <<>>, exit |-> m.exit \/ m.window_target]
         ELSE [sent |-> <<>>, exit |-> m.exit]

\* Game::on_ui_message: the messages it sends and whether the window target has
\* been asked to exit
MenuOnUiMessage(m, message) ==
    IF message.data = "ButtonClick"
    THEN IF message.destination = m.game.new_game
         THEN [sent |-> <<Message("WidgetVisibility", RootHandle, "ToWidget", 0)>>,
               exit |-> m.exit]
         ELSE IF message.destination = m.game.exit
              THEN [sent |-> <<>>, exit |-> m.exit \/ m.window_target]
              ELSE [sent |-> <<>>, exit |-> m.exit]
    ELSE [sent |-> <<>>, exit |-> m.exit]

\* Game::update, with the graphics context initialized: the statistics go to the
\* debug text, whatever its handle
MenuUpdateSent(m) == <<Message("Text", m.game.debug_text, "ToWidget", 0)>>

\* the user interface handles a message for the root: visibility(false) hides it
RootHandles(m, message) ==
    IF /\ message.data = "WidgetVisibility"
       /\ message.destination = RootHandle
       /\ message.direction = "ToWidget"
    THEN FALSE
    ELSE m.root_visible

InitMenu ==
    /\ example = "platformer_menu"
    /\ lastCall = "new"
    /\ keyLog = NoKeyLog
    /\ player = PlayerDefault
    /\ graph = RestGraph
    /\ animPlayer = AnimPlayerDefault
    /\ camera = CameraControllerDefault
    /\ UiAtRest
    /\ captured = "none"
    /\ blendGame = BlendGameNew
    /\ blendScene = NoScene
    /\ entry = "none"
    /\ pc = 0
    /\ executor = NoExecutor
    /\ menu \in {[MenuAtRest EXCEPT !.window_target = w] : w \in BOOLEAN}

MenuRunning ==
    /\ example = "platformer_menu"
    /\ menu.task # "panicked"
    /\ ~menu.exit

MenuFrame ==
    UNCHANGED <<example, scriptVars, game, scenes, scrollBar, quality, resetRun,
                captured, blendGame, blendScene, entry, pc, executor>>

\* The task has loaded the menu, or failed to, and the engine runs its closure on
\* the main thread: result.unwrap() panics on a failure, and the loaded user
\* interface takes the place of the old one, messages and all.
MenuTaskDone ==
    /\ MenuRunning
    /\ menu.task = "spawned"
    /\ \/ \E ui \in LoadedMenus :
              menu' = [menu EXCEPT !.task = "done", !.user_interface = ui,
                                   !.root_visible = TRUE,
                                   !.game = MenuLoaded(menu.game, ui)]
       \/ menu' = [menu EXCEPT !.task = "panicked"]
    /\ uiQueue' = <<>>
    /\ lastCall' = "task"
    /\ MenuFrame

MenuUpdate ==
    /\ MenuRunning
    /\ Len(uiQueue) < MaxQueue
    /\ uiQueue' = uiQueue \o MenuUpdateSent(menu)
    /\ lastCall' = "update"
    /\ UNCHANGED menu
    /\ MenuFrame

\* the user clicks a button, or the user interface has a message of another kind,
\* for a widget there is
MenuInput ==
    /\ MenuRunning
    /\ Len(uiQueue) < MaxQueue
    /\ \E h \in DOMAIN menu.user_interface, data \in {"ButtonClick", "WidgetMouseDown"} :
           uiQueue' = Append(uiQueue, Message(data, h, "FromWidget", 0))
    /\ lastCall' = "input"
    /\ UNCHANGED menu
    /\ MenuFrame

\* the engine polls a message: the user interface handles it, then the plugin
MenuPollMessage ==
    /\ MenuRunning
    /\ uiQueue # <<>>
    /\ LET message == Head(uiQueue)
           handled == MenuOnUiMessage(menu, message)
       IN  /\ uiQueue' = Tail(uiQueue) \o handled.sent
           /\ menu' = [menu EXCEPT !.root_visible = RootHandles(menu, message),
                                   !.exit = handled.exit]
    /\ lastCall' = "on_ui_message"
    /\ MenuFrame

NextMenu == MenuTaskDone \/ MenuUpdate \/ MenuInput \/ MenuPollMessage

SpecMenu == InitMenu /\ [][NextMenu]_vars

\* what on_ui_message sent in this step: the messages behind the ones that waited
MenuSent == SubSeq(uiQueue', Len(uiQueue), Len(uiQueue'))

HideRoot == Message("WidgetVisibility", RootHandle, "ToWidget", 0)

\* the handle is what the search by name gives: a widget of that name when the
\* user interface has one
RefersTo(handle, name) ==
    /\ handle = FindByNameDownFromRoot(menu.user_interface, name)
    /\ handle # NONE => menu.user_interface[handle] = name
    /\ (\E h \in DOMAIN menu.user_interface : menu.user_interface[h] = name)
           => handle # NONE

MenuClickStep ==
    (example = "platformer_menu" /\ lastCall' = "on_ui_message") =>
        LET message == Head(uiQueue)
            click == message.data = "ButtonClick"
        IN  /\ menu'.game = menu.game
            /\ IF click /\ message.destination = menu.game.new_game
               THEN MenuSent = <<HideRoot>> /\ menu'.exit = menu.exit
               ELSE IF click /\ message.destination = menu.game.exit
                    THEN MenuSent = <<>> /\ menu'.exit = menu.window_target
                    ELSE MenuSent = <<>> /\ menu'.exit = menu.exit

MenuHandles ==
    example = "platformer_menu" =>
        /\ menu.task # "done" =>
               /\ menu.game.new_game = NONE
               /\ menu.game.exit = NONE
               /\ menu.game.debug_text = NONE
               /\ menu.root_visible
               /\ ~menu.exit
        /\ menu.task = "done" =>
               /\ RefersTo(menu.game.new_game, "NewGame")
               /\ RefersTo(menu.game.exit, "Exit")
               /\ RefersTo(menu.game.debug_text, "DebugText")

\* C17: in the platformer menu a Click for the NewGame button sends
\* visibility(false) to the root of the user interface, a Click for the Exit button
\* asks the window target to exit when there is one, and any other message sends
\* nothing and asks nothing.  Until the closure of the loading task has run the
\* three handles are NONE, the root stays visible and no exit is asked; once it
\* has run the handles are the widgets named NewGame, Exit and DebugText of the
\* loaded user interface.
C17_MenuClicks == [][MenuClickStep]_vars /\ []MenuHandles

\* the loaded menu was hidden by a click on NewGame and the window target was
\* then asked to exit by a click on Exit
C17_Witness ==
    /\ example = "platformer_menu"
    /\ menu.task = "done"
    /\ lastCall = "on_ui_message"
    /\ ~menu.root_visible
    /\ menu.exit

====
